---------------------------- MODULE Spec2Model ----------------------------
(***************************************************************************)
(* Taxonomy matching of dmmmd/rnw: the TF-IDF TaxonomyDetector (ingest,    *)
(* detect), the two taxonomy loaders (parseTaxonomyText) and the           *)
(* detectCategory facade with its process-wide category cache.             *)
(*                                                                         *)
(* Text is a sequence of one-character strings, so that normalisation,     *)
(* splitting and parsing are computed character by character as the code   *)
(* does.  A JavaScript number is a fixed-point integer: a score or weight  *)
(* w stands for the double w / Scale.                                      *)
(***************************************************************************)
EXTENDS Integers, Sequences, FiniteSets, TLC

\* ------------------------------------------------------------------------
\* Characters and strings
\* ------------------------------------------------------------------------

\* The curly quotes U+2018 and U+2019, each one character.
LSQUO == "LSQUO"
RSQUO == "RSQUO"

UpperChars == <<"A", "B", "C", "D", "E", "F", "G", "H", "I", "J", "K", "L", "M", "N", "O", "P", "Q", "R", "S", "T", "U", "V", "W", "X", "Y", "Z">>
LowerChars == <<"a", "b", "c", "d", "e", "f", "g", "h", "i", "j", "k", "l", "m", "n", "o", "p", "q", "r", "s", "t", "u", "v", "w", "x", "y", "z">>
DigitChars == <<"0", "1", "2", "3", "4", "5", "6", "7", "8", "9">>
\* What the regular expression class \s matches, among the characters used.
SpaceChars == {" ", "\t", "\r", "\n"}

Digits == {DigitChars[i] : i \in 1..Len(DigitChars)}
LowerLetters == {LowerChars[i] : i \in 1..Len(LowerChars)}
UpperLetters == {UpperChars[i] : i \in 1..Len(UpperChars)}

IsDigit(c) == c \in Digits
IsLowerLetter(c) == c \in LowerLetters
IsSpace(c) == c \in SpaceChars

\* The value of a decimal digit character.
DigitVal(c) == (CHOOSE i \in 1..Len(DigitChars) : DigitChars[i] = c) - 1

\* The lower-case letter of each upper-case letter.
LowerOf ==
    [c \in UpperLetters |-> LowerChars[CHOOSE i \in 1..Len(UpperChars) : UpperChars[i] = c]]

\* String.prototype.toLowerCase on one character.
LowerChar(c) == IF c \in UpperLetters THEN LowerOf[c] ELSE c

ToLowerCase(s) == [i \in 1..Len(s) |-> LowerChar(s[i])]

\* DEFAULT_STOPWORDS.
DEFAULT_STOPWORDS ==
    { <<"a">>,
      <<"a", "n">>,
      <<"t", "h", "e">>,
      <<"a", "n", "d">>,
      <<"o", "r">>,
      <<"b", "u", "t">>,
      <<"f", "o", "r">>,
      <<"n", "o", "r">>,
      <<"s", "o">>,
      <<"o", "f">>,
      <<"i", "n">>,
      <<"o", "n">>,
      <<"t", "o">>,
      <<"w", "i", "t", "h">>,
      <<"b", "y">>,
      <<"a", "t">>,
      <<"f", "r", "o", "m">>,
      <<"i", "s">>,
      <<"a", "r", "e">>,
      <<"w", "a", "s">>,
      <<"w", "e", "r", "e">>,
      <<"b", "e">>,
      <<"b", "e", "e", "n">>,
      <<"b", "e", "i", "n", "g">>,
      <<"t", "h", "i", "s">>,
      <<"t", "h", "a", "t">>,
      <<"t", "h", "e", "s", "e">>,
      <<"t", "h", "o", "s", "e">>,
      <<"i", "t">>,
      <<"i", "t", "s">>,
      <<"a", "s">>,
      <<"i", "f">>,
      <<"t", "h", "a", "n">>,
      <<"t", "o", "o">>,
      <<"v", "e", "r", "y">>,
      <<"c", "a", "n">>,
      <<"w", "i", "l", "l">>,
      <<"j", "u", "s", "t">>,
      <<"n", "e", "w">>,
      <<"u", "s", "e", "d">>,
      <<"l", "i", "k", "e">>,
      <<"g", "r", "a", "d", "e">>,
      <<"r", "e", "f", "u", "r", "b", "i", "s", "h", "e", "d">>,
      <<"s", "a", "l", "e">>,
      <<"d", "e", "a", "l">>,
      <<"b", "u", "n", "d", "l", "e">>,
      <<"s", "e", "t">>,
      <<"p", "a", "c", "k">>,
      <<"c", "o", "m", "p", "a", "t", "i", "b", "l", "e">>,
      <<"g", "b">>,
      <<"t", "b">>,
      <<"i", "n", "c", "h">>,
      <<"i", "n", "c", "h", "e", "s">>,
      <<"m", "m">>,
      <<"c", "m">>,
      <<"x", "l">>,
      <<"x", "x", "l">>,
      <<"p", "r", "o">>,
      <<"m", "a", "x">>,
      <<"m", "i", "n", "i">>,
      <<"u", "l", "t", "r", "a">>,
      <<"s", "e", "r", "i", "e", "s">>,
      <<"g", "e", "n">>,
      <<"g", "e", "n", "e", "r", "a", "t", "i", "o", "n">> }

\* String.prototype.trim: whitespace removed at both ends.
RECURSIVE TrimStart(_)
TrimStart(s) ==
    IF s # <<>> /\ IsSpace(Head(s)) THEN TrimStart(Tail(s)) ELSE s

RECURSIVE TrimEnd(_)
TrimEnd(s) ==
    IF s # <<>> /\ IsSpace(s[Len(s)]) THEN TrimEnd(SubSeq(s, 1, Len(s) - 1)) ELSE s

Trim(s) == TrimEnd(TrimStart(s))

StartsWith(s, p) == Len(p) <= Len(s) /\ SubSeq(s, 1, Len(p)) = p

\* String.prototype.includes.
Includes(s, t) == \E i \in 0..(Len(s) - Len(t)) : SubSeq(s, i + 1, i + Len(t)) = t

\* String.prototype.split with a non-empty string separator; cur is the
\* piece being read.
RECURSIVE SplitOn(_, _, _)
SplitOn(s, sep, cur) ==
    IF s = <<>> THEN <<cur>>
    ELSE IF StartsWith(s, sep)
         THEN <<cur>> \o SplitOn(SubSeq(s, Len(sep) + 1, Len(s)), sep, <<>>)
         ELSE SplitOn(Tail(s), sep, Append(cur, Head(s)))

\* The breadcrumb separator " > ".
PathSep == <<" ", ">", " ">>

\* ------------------------------------------------------------------------
\* normalize, tokenize (Lexical Normalizer)
\* ------------------------------------------------------------------------

\* The class [a-z0-9\s'+&/-] that normalize keeps.
NormalizeKeeps(c) ==
    IsLowerLetter(c) \/ IsDigit(c) \/ IsSpace(c) \/ c \in {"'", "+", "&", "/", "-"}

\* The class [a-z0-9+] whose complement tokenize splits on.
IsTokenChar(c) == IsLowerLetter(c) \/ IsDigit(c) \/ c = "+"

\* .replace(/\s+/g, " ")
RECURSIVE CollapseSpaces(_)
CollapseSpaces(s) ==
    IF s = <<>> THEN <<>>
    ELSE IF IsSpace(Head(s))
         THEN <<" ">> \o CollapseSpaces(TrimStart(Tail(s)))
         ELSE <<Head(s)>> \o CollapseSpaces(Tail(s))

\* As normalize, with the \s+ replacement before that of the other characters.
normalizeCollapsingFirst(text) ==
    LET lower == ToLowerCase(text)
        quotes == [i \in 1..Len(lower) |->
                     IF lower[i] \in {LSQUO, RSQUO} THEN "'" ELSE lower[i]]
        collapsed == CollapseSpaces(quotes)
    IN  Trim([i \in 1..Len(collapsed) |->
                IF NormalizeKeeps(collapsed[i]) THEN collapsed[i] ELSE " "])
normalize(text) ==
    LET lower == ToLowerCase(text)
        quotes == [i \in 1..Len(lower) |->
                     IF lower[i] \in {LSQUO, RSQUO} THEN "'" ELSE lower[i]]
        kept == [i \in 1..Len(quotes) |->
                   IF NormalizeKeeps(quotes[i]) THEN quotes[i] ELSE " "]
    IN  Trim(CollapseSpaces(kept))

\* String.prototype.split(/[^a-z0-9+]+/g): the pieces between maximal runs of
\* separator characters, empty pieces at the ends included.
RECURSIVE SplitTokens(_, _, _)
SplitTokens(s, cur, prevSep) ==
    IF s = <<>> THEN <<cur>>
    ELSE IF IsTokenChar(Head(s))
         THEN SplitTokens(Tail(s), Append(cur, Head(s)), FALSE)
         ELSE IF prevSep
              THEN SplitTokens(Tail(s), cur, TRUE)
              ELSE <<cur>> \o SplitTokens(Tail(s), <<>>, TRUE)

IsKeptToken(t) == Len(t) > 1 /\ t \notin DEFAULT_STOPWORDS

tokenize(text) ==
    SelectSeq(SplitTokens(normalize(text), <<>>, FALSE), IsKeptToken)

\* ------------------------------------------------------------------------
\* parseTaxonomyText (Taxonomy Loader)
\* ------------------------------------------------------------------------

\* What "." of a regular expression does not match, among the characters used.
LineTerminators == {"\r", "\n"}

\* String.prototype.split(/\r?\n/).
RECURSIVE SplitLines(_, _)
SplitLines(s, cur) ==
    IF s = <<>> THEN <<cur>>
    ELSE IF Head(s) = "\n"
         THEN <<cur>> \o SplitLines(Tail(s), <<>>)
         ELSE IF Head(s) = "\r" /\ Len(s) > 1 /\ s[2] = "\n"
              THEN <<cur>> \o SplitLines(SubSeq(s, 3, Len(s)), <<>>)
              ELSE SplitLines(Tail(s), Append(cur, Head(s)))

\* The longest prefix of digits: what a greedy \d+ takes.
RECURSIVE DigitPrefix(_)
DigitPrefix(s) ==
    IF s # <<>> /\ IsDigit(Head(s)) THEN <<Head(s)>> \o DigitPrefix(Tail(s)) ELSE <<>>

\* Number(digits) for a string of decimal digits.
RECURSIVE DigitsToNumber(_, _)
DigitsToNumber(s, acc) ==
    IF s = <<>> THEN acc ELSE DigitsToNumber(Tail(s), 10 * acc + DigitVal(Head(s)))

NoLineMatch == [matched |-> FALSE, digits |-> <<>>, rest |-> <<>>]

\* trimmed.match(/^(\d+)\s*-\s*(.+)$/): the two groups, or no match.
MatchLine(trimmed) ==
    LET digits == DigitPrefix(trimmed)
        after == TrimStart(SubSeq(trimmed, Len(digits) + 1, Len(trimmed)))
        rest == IF after # <<>> /\ Head(after) = "-" THEN TrimStart(Tail(after)) ELSE <<>>
    IN  IF /\ digits # <<>>
           /\ after # <<>> /\ Head(after) = "-"
           /\ rest # <<>>
           /\ \A i \in 1..Len(rest) : rest[i] \notin LineTerminators
        THEN [matched |-> TRUE, digits |-> digits, rest |-> rest]
        ELSE NoLineMatch

\* The segments of a breadcrumb: path.split(" > ").map(s => s.trim()).
Segments(path) ==
    LET raw == SplitOn(path, PathSep, <<>>)
    IN  [i \in 1..Len(raw) |-> Trim(raw[i])]

\* The entry a matched line gives.
EntryOf(m) ==
    LET path == Trim(m.rest)
        segments == Segments(path)
    IN  [id |-> DigitsToNumber(m.digits, 0), path |-> path,
         leaf |-> segments[Len(segments)], depth |-> Len(segments)]

\* A line that is skipped: empty after trimming, a comment, or no match.
IsSkipped(line) ==
    LET trimmed == Trim(line)
    IN  trimmed = <<>> \/ Head(trimmed) = "#" \/ ~MatchLine(trimmed).matched

RECURSIVE ParseLines(_)
ParseLines(lines) ==
    IF lines = <<>> THEN <<>>
    ELSE IF IsSkipped(Head(lines))
         THEN ParseLines(Tail(lines))
         ELSE <<EntryOf(MatchLine(Trim(Head(lines))))>> \o ParseLines(Tail(lines))

\* parseTaxonomyText of the detector: every well-formed line gives an entry.
parseTaxonomyText(taxonomyText) == ParseLines(SplitLines(taxonomyText, <<>>))

Electronics == <<"E", "l", "e", "c", "t", "r", "o", "n", "i", "c", "s">>

\* parseTaxonomyText of detectCategory.ts: as above, and only the entries
\* whose top category is 'Electronics' are kept.
IsElectronics(e) == Segments(e.path)[1] = Electronics

parseTaxonomyTextElectronics(taxonomyText) ==
    SelectSeq(ParseLines(SplitLines(taxonomyText, <<>>)), IsElectronics)

\* ------------------------------------------------------------------------
\* Numbers
\* ------------------------------------------------------------------------

\* A JavaScript number x is the integer x * Scale, rounded down.
Scale == 1000

Min(a, b) == IF a <= b THEN a ELSE b
Max(a, b) == IF a >= b THEN a ELSE b

\* Math.log of the integers 1..12, in units of 1/Scale.
LnTable == <<0, 693, 1099, 1386, 1609, 1792, 1946, 2079, 2197, 2303, 2398, 2485>>

\* Math.log(n) for an integer n >= 1.
RECURSIVE Ln(_)
Ln(n) == IF n <= Len(LnTable) THEN LnTable[n] ELSE Ln(n \div 2) + LnTable[2]

\* Math.sqrt of x >= 0, rounded down, by bisection on lo..hi.
RECURSIVE SqrtIn(_, _, _)
SqrtIn(x, lo, hi) ==
    IF lo >= hi THEN lo
    ELSE LET mid == (lo + hi + 1) \div 2
         IN  IF mid * mid <= x THEN SqrtIn(x, mid, hi) ELSE SqrtIn(x, lo, mid - 1)

\* 46340 is the largest root whose square is a 32-bit integer.
Sqrt(x) == SqrtIn(x, 0, Min(x, 46340))

\* Math.exp(-k) for the integers k = 0..15, in units of 1/1000000.
ExpNegTable ==
    <<1000000, 367879, 135335, 49787, 18316, 6738, 2479, 912, 335, 123, 45, 17,
      6, 2, 1, 0>>

\* Math.exp(-y / Scale) for y >= 0, in units of 1/Scale: the table for the
\* integer part and the Taylor series, to the third order, for the fraction.
ExpNeg(y) ==
    LET k == y \div Scale
        f == ((y % Scale) * 1000) \div Scale
        frac == 1000000 - 1000 * f + (f * f) \div 2 - (f * f * f) \div 6000
        micro == (ExpNegTable[k + 1] * (frac \div 1000)) \div 1000
    IN  IF k >= Len(ExpNegTable) THEN 0 ELSE (micro * Scale) \div 1000000

Range(s) == {s[i] : i \in DOMAIN s}

\* The sum of f over the finite set S.
RECURSIVE SumOver(_, _)
SumOver(S, f) ==
    IF S = {} THEN 0
    ELSE LET x == CHOOSE y \in S : TRUE
         IN  f[x] + SumOver(S \ {x}, f)

RECURSIVE SumSeq(_)
SumSeq(s) == IF s = <<>> THEN 0 ELSE Head(s) + SumSeq(Tail(s))

\* ------------------------------------------------------------------------
\* TaxonomyDetector: the index
\* ------------------------------------------------------------------------

\* A Map with no key.
EmptyMap == [t \in {} |-> 0]

\* Map.prototype.clear.
MapClearKeepsAll(m) == m
MapClear(m) == EmptyMap

\* map.get(t) || 0
GetOr0(m, t) == IF t \in DOMAIN m THEN m[t] ELSE 0

\* A path that makes categoryTokens throw: a value that is not a string at
\* run time (the types are erased, and e.path.split is then a TypeError), or
\* a segment with more tokens than push(...tokens) can take as arguments
\* (a RangeError).
NotAString == <<"[not a string]">>

CategoryTokensThrows(e) == e.path = NotAString

RECURSIVE ConcatAll(_)
ConcatAll(ss) == IF ss = <<>> THEN <<>> ELSE Head(ss) \o ConcatAll(Tail(ss))

\* categoryTokens: the tokens of every segment of the path, in order.
categoryTokens(e) ==
    LET segs == SplitOn(e.path, PathSep, <<>>)
    IN  ConcatAll([i \in 1..Len(segs) |-> tokenize(segs[i])])

\* One pass of the document-frequency loop: each token of the document
\* counted once.
AddDoc(df, doc) ==
    [t \in DOMAIN df \cup Range(doc) |->
        GetOr0(df, t) + (IF t \in Range(doc) THEN 1 ELSE 0)]

RECURSIVE CountDocs(_, _)
CountDocs(df, docs) ==
    IF docs = <<>> THEN df ELSE CountDocs(AddDoc(df, Head(docs)), Tail(docs))

\* tokenDocFreq after steps 1 of ingest, from the map as it was.
DocFreqOf(prev, docs) == CountDocs(MapClear(prev), docs)

\* The smoothed idf: Math.log((N + 1) / (df + 1)) + 1.
SmoothedIdf(N, df) == Ln(N + 1) - Ln(df + 1) + Scale

\* idf after step 2 of ingest, from the map as it was.
IdfOf(prev, df, N) ==
    LET base == MapClear(prev)
    IN  [t \in DOMAIN base \cup DOMAIN df |->
            IF t \in DOMAIN df THEN SmoothedIdf(N, df[t]) ELSE base[t]]

\* The number of occurrences of t in tokens.
CountIn(tokens, t) == Cardinality({i \in DOMAIN tokens : tokens[i] = t})

\* tfIdfVector: log-normalised term frequency times idf, zero weights left
\* out, divided by the Euclidean norm (by 1 when the norm is 0).
tfIdfVector(tokens, idfMap) ==
    LET tf == [t \in Range(tokens) |-> Scale + Ln(CountIn(tokens, t))]
        weight == [t \in Range(tokens) |-> (tf[t] * GetOr0(idfMap, t)) \div Scale]
        kept == {t \in Range(tokens) : weight[t] # 0}
        normSq == SumOver(kept, [t \in kept |-> weight[t] * weight[t]])
        norm == IF Sqrt(normSq) = 0 THEN Scale ELSE Sqrt(normSq)
    IN  [t \in kept |-> (weight[t] * Scale) \div norm]

\* cosineSim: the dot product over the keys of the smaller vector.
cosineSim(v1, v2) ==
    LET small == IF Cardinality(DOMAIN v1) <= Cardinality(DOMAIN v2) THEN v1 ELSE v2
        big == IF Cardinality(DOMAIN v1) <= Cardinality(DOMAIN v2) THEN v2 ELSE v1
        common == DOMAIN small \cap DOMAIN big
    IN  SumOver(common, [t \in common |-> (small[t] * big[t]) \div Scale])

\* ------------------------------------------------------------------------
\* TaxonomyDetector.detect
\* ------------------------------------------------------------------------

\* The defaults of DetectorOptions.  A temperature is in units of
\* 1 / TempUnit: 7000 is 0.7, and the floor 1 is 1e-4.
TempUnit == 10 * Scale
DefaultTopK == 8
DefaultTemperature == 7000
TemperatureFloor == 1
DefaultMinDepth == 1

\* The heuristics' numbers, in units of 1/Scale: 0.06, 1.35, 0.15, 0.92.
DepthBoostStep == 60
DepthBoostCap == 1350
LeafBoost == 150
ShallowPenalty == 920
\* A leaf is looked up in the title when it is longer than this.
MinLeafLength == 3
\* The shallow penalty applies up to this depth.
ShallowDepth == 2

\* An option of the bag: given with a value, or left out.
Omitted == [given |-> FALSE, val |-> 0]
Given(v) == [given |-> TRUE, val |-> v]

\* Destructuring with a default: { name = default } = opts.
OptOr(c, default) == IF c.given THEN c.val ELSE default

\* !this.entries.length
NotLoadedNever(es) == FALSE
NotLoaded(es) == Len(es) = 0

\* e.depth < minDepth: the entry's score is -Infinity.
ExcludedNever(e, minDepth) == FALSE
Excluded(e, minDepth) == e.depth < minDepth

\* The score of one entry that passes the depth filter.
ScoreOf(e, qVec, vec, title, enableHeuristics) ==
    LET s0 == cosineSim(qVec, vec)
        depthBoost == Min(Scale + (e.depth - 1) * DepthBoostStep, DepthBoostCap)
        s1 == (s0 * depthBoost) \div Scale
        leafLower == ToLowerCase(e.leaf)
        titleLower == ToLowerCase(title)
        s2 == IF Len(leafLower) > MinLeafLength /\ Includes(titleLower, leafLower)
              THEN s1 + LeafBoost ELSE s1
        s3 == IF e.depth <= ShallowDepth THEN (s2 * ShallowPenalty) \div Scale ELSE s2
    IN  IF enableHeuristics THEN s3 ELSE s0

\* -Infinity
NegInfinity == [finite |-> FALSE, val |-> 0]
Finite(v) == [finite |-> TRUE, val |-> v]

\* The scores array, indexed from 1.
ScoresOf(es, vecs, qVec, title, enableHeuristics, minDepth) ==
    [i \in 1..Len(es) |->
        IF Excluded(es[i], minDepth) THEN NegInfinity
        ELSE Finite(ScoreOf(es[i], qVec, vecs[i], title, enableHeuristics))]

\* Array.prototype.sort with (a, b) => scores[b] - scores[a]: descending by
\* score, and stable, so that equal scores keep the order they had.
RECURSIVE InsertDesc(_, _, _)
InsertDesc(x, sorted, scores) ==
    IF sorted = <<>> THEN <<x>>
    ELSE IF scores[Head(sorted)].val >= scores[x].val
         THEN <<Head(sorted)>> \o InsertDesc(x, Tail(sorted), scores)
         ELSE <<x>> \o sorted

RECURSIVE SortDescFrom(_, _, _)
SortDescFrom(rest, sorted, scores) ==
    IF rest = <<>> THEN sorted
    ELSE SortDescFrom(Tail(rest), InsertDesc(Head(rest), sorted, scores), scores)

SortDesc(idx, scores) == SortDescFrom(idx, <<>>, scores)

\* Array.prototype.slice(0, end) for an integer end.
Slice(s, end) ==
    LET final == IF end < 0 THEN Max(Len(s) + end, 0) ELSE Min(end, Len(s))
    IN  SubSeq(s, 1, final)

\* The indices whose score is finite, in index order.
FiniteIndices(scores) ==
    LET IsFin(i) == scores[i].finite
    IN  SelectSeq([i \in 1..Len(scores) |-> i], IsFin)

\* The ranking: the finite indices, sorted.
Ranking(scores) == SortDesc(FiniteIndices(scores), scores)

RECURSIVE MaxOf(_)
MaxOf(s) == IF Len(s) = 1 THEN s[1] ELSE Max(Head(s), MaxOf(Tail(s)))

\* softmax; of the empty array it is the empty array.
softmaxNotNormalised(scores, temperature) ==
    [i \in 1..Len(scores) |->
        ExpNeg(((MaxOf(scores) - scores[i]) * TempUnit) \div Max(temperature, TemperatureFloor))]
softmax(scores, temperature) ==
    IF scores = <<>> THEN <<>>
    ELSE LET t == Max(temperature, TemperatureFloor)
             max == MaxOf(scores)
             exps == [i \in 1..Len(scores) |->
                        ExpNeg(((max - scores[i]) * TempUnit) \div t)]
             sum == SumSeq(exps)
         IN  [i \in 1..Len(exps) |-> IF sum = 0 THEN 0 ELSE (exps[i] * Scale) \div sum]

\* What a call of detect does: it throws the "No taxonomy loaded" error, it
\* throws a TypeError in cosineSim when an entry that passes the depth filter
\* has no vector (this.vectors[i] is undefined), or it returns candidates.
detect(es, idfMap, vecs, title, opts) ==
    LET topK == OptOr(opts.topK, DefaultTopK)
        temperature == OptOr(opts.temperature, DefaultTemperature)
        enableHeuristics == OptOr(opts.enableHeuristics, TRUE)
        minDepth == OptOr(opts.minDepth, DefaultMinDepth)
        qVec == tfIdfVector(tokenize(title), idfMap)
        scores == ScoresOf(es, vecs, qVec, title, enableHeuristics, minDepth)
        idx == Slice(Ranking(scores), topK)
        normProbs == softmax([j \in 1..Len(idx) |-> scores[idx[j]].val], temperature)
    IN  IF NotLoaded(es)
        THEN [outcome |-> "NotReady", cands |-> <<>>]
        ELSE IF \E i \in 1..Len(es) : ~Excluded(es[i], minDepth) /\ i > Len(vecs)
             THEN [outcome |-> "TypeError", cands |-> <<>>]
             ELSE [outcome |-> "return",
                   cands |-> [j \in 1..Len(idx) |->
                                [id |-> es[idx[j]].id, path |-> es[idx[j]].path,
                                 leaf |-> es[idx[j]].leaf, depth |-> es[idx[j]].depth,
                                 score |-> scores[idx[j]].val,
                                 probability |-> normProbs[j]]]]

\* ------------------------------------------------------------------------
\* State
\* ------------------------------------------------------------------------

\* The detector.
VARIABLES
    entries,        \* this.entries
    idf,            \* this.idf
    vectors,        \* this.vectors, aligned to entries
    tokenDocFreq,   \* this.tokenDocFreq
    ret,            \* the last call: its arguments and what it did
    ingestCalled,   \* whether ingest was ever called
    lastIngested,   \* the list the most recent ingest was called with
    nonEmptyIngested, \* whether ingest was ever called with a non-empty list
    idfFor,         \* the entries idf was computed from
    vectorsFor      \* the entries vectors was computed from

detectorVars ==
    <<entries, idf, vectors, tokenDocFreq, ret, ingestCalled, lastIngested,
      nonEmptyIngested, idfFor, vectorsFor>>

\* The loaders.
VARIABLES
    rawText,        \* the taxonomy text handed to the loaders
    parsed,         \* what parseTaxonomyText of the detector returned
    categoryEntries, \* what parseTaxonomyText of detectCategory.ts returned
    categoryMap     \* the Map getPossibleCategories built from the text

loaderVars == <<rawText, parsed, categoryEntries, categoryMap>>

\* detectCategory and its cache.
VARIABLES
    possibleCategoriesCache,  \* the module's cache: undefined, or a Map
    fetchCount,               \* fetches of the taxonomy issued so far
    parseCount,               \* calls of parseTaxonomyText so far
    pc,                       \* where each call of suggestCategory is
    candidates,               \* each call's candidates, from getPossibleCategories
    candidateId,              \* each call's answer of the model
    result                    \* what each call's detectCategory and its caller did

facadeVars ==
    <<possibleCategoriesCache, fetchCount, parseCount, pc, candidates, candidateId,
      result>>

\* normalize and tokenize applied to a text, and again to what they gave.
VARIABLES
    inputText,      \* the text handed to normalize and tokenize
    normalized,     \* normalize(inputText), normalize of that, ...
    tokenized       \* tokenize(inputText), tokenize of its tokens joined, ...

normalizerVars == <<inputText, normalized, tokenized>>

vars == <<detectorVars, loaderVars, facadeVars, normalizerVars>>

\* ------------------------------------------------------------------------
\* The detector as a state machine
\* ------------------------------------------------------------------------

\* The longest entry list ingested.
MaxEntries == 2

\* The taxonomy text the entries come from.
CatalogueText ==
    <<"1", " ", "-", " ", "P", "h", "o", "n", "e", "s">>
    \o <<"\n">> \o <<"2", " ", "-", " ", "P", "h", "o", "n", "e", "s", " ", ">", " ", "C", "a", "s", "e", "s">>
    \o <<"\n">> \o <<"3", " ", "-", " ", "A", "u", "d", "i", "o", " ", ">", " ", "D", "o", "c", "k", "s", " ", ">", " ", "C", "a", "s", "e", "s">>

\* An entry whose path is not a string.
BadEntry == [id |-> 4, path |-> NotAString, leaf |-> <<"B", "a", "d">>, depth |-> 1]

Catalogue == parseTaxonomyText(CatalogueText) \o <<BadEntry>>

\* The entry lists ingest is called with: up to MaxEntries parsed entries,
\* in any order, none twice; and such a list with the bad entry at its end.
GoodLists ==
    LET n == Len(Catalogue) - 1
        picks == UNION {[1..k -> 1..n] : k \in 0..MaxEntries}
    IN  {[i \in DOMAIN p |-> Catalogue[p[i]]] :
            p \in {q \in picks : \A i, j \in DOMAIN q : i # j => q[i] # q[j]}}

EntryLists ==
    GoodLists \cup {Append(g, BadEntry) : g \in {h \in GoodLists : Len(h) < MaxEntries}}

Titles ==
    { <<"N", "e", "w", " ", "P", "h", "o", "n", "e", "s", " ", "C", "a", "s", "e", "s">>,
      <<"x", "y", "z">> }

\* The option bags detect is called with.
OptionBags ==
    [topK : {Omitted, Given(-1), Given(1), Given(2)},
     temperature : {Omitted},
     enableHeuristics : {Omitted, Given(FALSE)},
     minDepth : {Omitted, Given(2), Given(4)}]
    \cup
    [topK : {Omitted},
     temperature : {Given(0)},
     enableHeuristics : {Omitted, Given(FALSE)},
     minDepth : {Omitted}]

NoCall == [op |-> "none"]

DetectorInit ==
    /\ entries = <<>>
    /\ idf = EmptyMap
    /\ vectors = <<>>
    /\ tokenDocFreq = EmptyMap
    /\ ret = NoCall
    /\ ingestCalled = FALSE
    /\ lastIngested = <<>>
    /\ nonEmptyIngested = FALSE
    /\ idfFor = <<>>
    /\ vectorsFor = <<>>

\* ingest(es).  The entries are assigned and the document frequencies
\* cleared before the tokens are computed: when categoryTokens throws, the
\* call ends there, with idf and vectors as they were.
Ingest(es) ==
    LET docs == [i \in 1..Len(es) |-> categoryTokens(es[i])]
        df == DocFreqOf(tokenDocFreq, docs)
        newIdf == IdfOf(idf, df, Len(es))
        throws == \E i \in 1..Len(es) : CategoryTokensThrows(es[i])
    IN  /\ entries' = es
        /\ ingestCalled' = TRUE
        /\ lastIngested' = es
        /\ nonEmptyIngested' = (nonEmptyIngested \/ es # <<>>)
        /\ UNCHANGED <<loaderVars, facadeVars, normalizerVars>>
        /\ IF throws
           THEN /\ tokenDocFreq' = MapClear(tokenDocFreq)
                /\ UNCHANGED <<idf, vectors, idfFor, vectorsFor>>
                /\ ret' = [op |-> "ingest", arg |-> es, before |-> entries,
                           outcome |-> "throw"]
           ELSE /\ tokenDocFreq' = df
                /\ idf' = newIdf
                /\ vectors' = [i \in 1..Len(es) |-> tfIdfVector(docs[i], newIdf)]
                /\ idfFor' = es
                /\ vectorsFor' = es
                /\ ret' = [op |-> "ingest", arg |-> es, before |-> entries,
                           outcome |-> "return"]

\* As Detect, with the detector ready once ingest was called, whatever with.
DetectReadyOnceIngested(title, opts) ==
    LET r == IF ingestCalled /\ entries = <<>>
             THEN [outcome |-> "return", cands |-> <<>>]
             ELSE detect(entries, idf, vectors, title, opts)
    IN  /\ ret' = [op |-> "detect", title |-> title, opts |-> opts,
                   outcome |-> r.outcome, cands |-> r.cands]
        /\ UNCHANGED <<entries, idf, vectors, tokenDocFreq, ingestCalled,
                       lastIngested, nonEmptyIngested, idfFor, vectorsFor>>
        /\ UNCHANGED <<loaderVars, facadeVars, normalizerVars>>

\* As Detect, with the query vector appended to the vectors.
DetectKeepingQueryVector(title, opts) ==
    LET r == detect(entries, idf, vectors, title, opts)
    IN  /\ ret' = [op |-> "detect", title |-> title, opts |-> opts,
                   outcome |-> r.outcome, cands |-> r.cands]
        /\ vectors' = Append(vectors, tfIdfVector(tokenize(title), idf))
        /\ UNCHANGED <<entries, idf, tokenDocFreq, ingestCalled, lastIngested,
                       nonEmptyIngested, idfFor, vectorsFor>>
        /\ UNCHANGED <<loaderVars, facadeVars, normalizerVars>>

\* detect(title, opts): it reads the index and assigns none of its fields.
Detect(title, opts) ==
    LET r == detect(entries, idf, vectors, title, opts)
    IN  /\ ret' = [op |-> "detect", title |-> title, opts |-> opts,
                   outcome |-> r.outcome, cands |-> r.cands]
        /\ UNCHANGED <<entries, idf, vectors, tokenDocFreq, ingestCalled,
                       lastIngested, nonEmptyIngested, idfFor, vectorsFor>>
        /\ UNCHANGED <<loaderVars, facadeVars, normalizerVars>>

\* ------------------------------------------------------------------------
\* Map<number, CategoryCandidate> and the numbers of strings
\* ------------------------------------------------------------------------

\* A Map is the sequence of its [key, value] pairs in insertion order.
MapHas(m, k) == \E i \in 1..Len(m) : m[i].key = k
MapGet(m, k) == m[CHOOSE i \in 1..Len(m) : m[i].key = k].value

\* Map.prototype.set: a key that is there keeps its place and takes the value.
MapSet(m, k, v) ==
    IF MapHas(m, k)
    THEN [i \in 1..Len(m) |-> IF m[i].key = k THEN [key |-> k, value |-> v] ELSE m[i]]
    ELSE Append(m, [key |-> k, value |-> v])

\* possibleCategoriesCache = new Map; entries.forEach(e => cache.set(e.id, e))
RECURSIVE SetAll(_, _)
SetAll(m, es) ==
    IF es = <<>> THEN m ELSE SetAll(MapSet(m, Head(es).id, Head(es)), Tail(es))

CategoryMapOf(es) == SetAll(<<>>, es)

AllDigits(s) == \A i \in 1..Len(s) : IsDigit(s[i])

\* +candidateId, the number of a string: whitespace trimmed, the empty string
\* is 0, and a signed decimal literal with an optional fraction is its value;
\* any other string of the characters used is NaN.  val is the integer part.
ToNumber(str) ==
    LET s == Trim(str)
        signed == s # <<>> /\ Head(s) \in {"+", "-"}
        body == IF signed THEN Tail(s) ELSE s
        int == DigitPrefix(body)
        rest == SubSeq(body, Len(int) + 1, Len(body))
        frac == IF rest # <<>> /\ Head(rest) = "." THEN Tail(rest) ELSE <<>>
        wellFormed == /\ rest = <<>> \/ (Head(rest) = "." /\ AllDigits(frac))
                      /\ int # <<>> \/ frac # <<>>
        magnitude == DigitsToNumber(int, 0)
    IN  IF s = <<>> THEN [nan |-> FALSE, integer |-> TRUE, val |-> 0]
        ELSE IF ~wellFormed THEN [nan |-> TRUE, integer |-> FALSE, val |-> 0]
        ELSE [nan |-> FALSE,
              integer |-> DigitsToNumber(frac, 0) = 0,
              val |-> IF signed /\ Head(s) = "-" THEN 0 - magnitude ELSE magnitude]

\* ------------------------------------------------------------------------
\* The loaders as a state machine
\* ------------------------------------------------------------------------

\* The most lines a taxonomy text has.
MaxLines == 2

\* The lines taxonomy texts are made of: entries (two with the id 1, one
\* written 01), a comment, a blank line, lines that do not match; an entry
\* with a tab, a doubled separator and a carriage return at its end, a line
\* with a carriage return in its breadcrumb, a line without a breadcrumb.
Lines ==
    { <<"1", " ", "-", " ", "E", "l", "e", "c", "t", "r", "o", "n", "i", "c", "s", " ", ">", " ", "P", "h", "o", "n", "e", "s">>,
      <<"1", " ", "-", " ", "E", "l", "e", "c", "t", "r", "o", "n", "i", "c", "s", " ", ">", " ", "A", "u", "d", "i", "o">>,
      <<"0", "1", "-", "H", "o", "m", "e", " ", ">", " ", "C", "h", "a", "i", "r", "s">>,
      <<"2", " ", "-", " ", "E", "l", "e", "c", "t", "r", "o", "n", "i", "c", "s">>,
      <<"#", " ", "3", " ", "-", " ", "E", "l", "e", "c", "t", "r", "o", "n", "i", "c", "s">>,
      <<" ", "\t">>,
      <<"7", " ", "E", "l", "e", "c", "t", "r", "o", "n", "i", "c", "s">>,
      <<"5", " ", "-", "\t", "A", " ", ">", " ", ">", " ", "B", " ", "\r">>,
      <<"6", "-", " ", "a", "\r", "b">>,
      <<"9", " ", "-">> }

\* The lines joined by line breaks.
RECURSIVE JoinLines(_)
JoinLines(ls) ==
    IF ls = <<>> THEN <<>>
    ELSE IF Len(ls) = 1 THEN ls[1]
         ELSE ls[1] \o <<"\n">> \o JoinLines(Tail(ls))

Texts == {JoinLines(ls) : ls \in UNION {[1..n -> Lines] : n \in 0..MaxLines}}

NotYet == [done |-> FALSE, value |-> <<>>]
Returned(v) == [done |-> TRUE, value |-> v]

LoaderIdle ==
    /\ rawText = <<>>
    /\ parsed = NotYet
    /\ categoryEntries = NotYet
    /\ categoryMap = NotYet

LoaderInit ==
    /\ rawText \in Texts
    /\ parsed = NotYet
    /\ categoryEntries = NotYet
    /\ categoryMap = NotYet

\* parseTaxonomyText(text) of the detector's loader.
ParseText ==
    /\ ~parsed.done
    /\ parsed' = Returned(parseTaxonomyText(rawText))
    /\ UNCHANGED <<rawText, categoryEntries, categoryMap>>
    /\ UNCHANGED <<detectorVars, facadeVars, normalizerVars>>

\* Lines 31-35 of getPossibleCategories on the text.
BuildCategoryMap ==
    /\ ~categoryMap.done
    /\ categoryEntries' = Returned(parseTaxonomyTextElectronics(rawText))
    /\ categoryMap' = Returned(CategoryMapOf(parseTaxonomyTextElectronics(rawText)))
    /\ UNCHANGED <<rawText, parsed>>
    /\ UNCHANGED <<detectorVars, facadeVars, normalizerVars>>

\* ------------------------------------------------------------------------
\* normalize and tokenize as a state machine
\* ------------------------------------------------------------------------

\* The most pieces a text is made of.
MaxPieces == 3

\* The most times normalize, or tokenize, is applied in a row.
MaxApplications == 2

\* The pieces texts are made of: words with upper-case letters, a hyphen, a
\* full stop, a curly quote, kept symbols, an exclamation mark; a stop word;
\* a blank and a tab.
Pieces ==
    { <<"W", "i", "-", "F", "i">>,
      <<" ">>,
      <<"\t">>,
      <<"N", "e", "w">>,
      <<"3", ".", "5", "m", "m">>,
      <<"+", "+">>,
      <<RSQUO, "s">>,
      <<"&", "/", "b", "!">> }

RECURSIVE ConcatPieces(_)
ConcatPieces(ps) == IF ps = <<>> THEN <<>> ELSE Head(ps) \o ConcatPieces(Tail(ps))

InputTexts == {ConcatPieces(ps) : ps \in UNION {[1..n -> Pieces] : n \in 0..MaxPieces}}

\* tokens.join(" ")
RECURSIVE JoinTokens(_)
JoinTokens(tokens) ==
    IF tokens = <<>> THEN <<>>
    ELSE IF Len(tokens) = 1 THEN tokens[1]
         ELSE tokens[1] \o <<" ">> \o JoinTokens(Tail(tokens))

NormalizerIdle ==
    /\ inputText = <<>>
    /\ normalized = <<>>
    /\ tokenized = <<>>

NormalizerInit ==
    /\ inputText \in InputTexts
    /\ normalized = <<>>
    /\ tokenized = <<>>

\* normalize, of the text and then of what normalize returned.
Normalize ==
    /\ Len(normalized) < MaxApplications
    /\ normalized' = Append(normalized,
                            normalize(IF normalized = <<>> THEN inputText
                                      ELSE normalized[Len(normalized)]))
    /\ UNCHANGED <<inputText, tokenized>>
    /\ UNCHANGED <<detectorVars, loaderVars, facadeVars>>

\* tokenize, of the text and then of the tokens it returned, joined by
\* single spaces.
Tokenize ==
    /\ Len(tokenized) < MaxApplications
    /\ tokenized' = Append(tokenized,
                           tokenize(IF tokenized = <<>> THEN inputText
                                    ELSE JoinTokens(tokenized[Len(tokenized)])))
    /\ UNCHANGED <<inputText, normalized>>
    /\ UNCHANGED <<detectorVars, loaderVars, facadeVars>>

\* ------------------------------------------------------------------------
\* detectCategory and its cache as a state machine
\* ------------------------------------------------------------------------

\* The calls that can be in flight together.
NumCalls == 2
\* The most fetches of the taxonomy issued.
MaxFetches == 3

Calls == 1..NumCalls

\* The taxonomy texts the URL serves.
FetchTexts ==
    { <<"0", " ", "-", " ", "E", "l", "e", "c", "t", "r", "o", "n", "i", "c", "s">>
      \o <<"\n">> \o <<"1", " ", "-", " ", "E", "l", "e", "c", "t", "r", "o", "n", "i", "c", "s", " ", ">", " ", "P", "h", "o", "n", "e", "s">>
      \o <<"\n">> \o <<"3", " ", "-", " ", "H", "o", "m", "e", " ", ">", " ", "C", "h", "a", "i", "r", "s">>,
      <<"1", " ", "-", " ", "E", "l", "e", "c", "t", "r", "o", "n", "i", "c", "s", " ", ">", " ", "A", "u", "d", "i", "o">>
      \o <<"\n">> \o <<"2", " ", "-", " ", "E", "l", "e", "c", "t", "r", "o", "n", "i", "c", "s", " ", ">", " ", "T", "v">> }

\* The contents the model answers with.
Answers ==
    { <<"1">>, <<"0">>, <<"2">>, <<"a", "b", "c">>, <<"1", ".", "5">>, <<"-", "1">>, <<" ", "1", " ">>, <<"2", ".", "0">> }

\* undefined, and a Map: gen tells the Map objects apart, the n-th created
\* having gen n.
Undefined == [defined |-> FALSE, gen |-> 0, map |-> <<>>]
MapObject(n, m) == [defined |-> TRUE, gen |-> n, map |-> m]

NoResult == [kind |-> "none", id |-> 0, path |-> <<>>, caller |-> "none"]
\* detectCategory rejected; suggestCategory rejects with the same error.
Rejected(error) == [kind |-> error, id |-> 0, path |-> <<>>, caller |-> "rejected"]
\* detectCategory resolved with undefined; category.path in suggestCategory
\* is then a TypeError.
ResolvedUndefined == [kind |-> "undefined", id |-> 0, path |-> <<>>, caller |-> "TypeError"]
\* detectCategory resolved with createCategory(id, path); suggestCategory
\* shows the path.
ResolvedCategory(id, path) ==
    [kind |-> "category", id |-> id, path |-> path, caller |-> "setCategory"]

FacadeIdle ==
    /\ possibleCategoriesCache = Undefined
    /\ fetchCount = 0
    /\ parseCount = 0
    /\ pc = [c \in Calls |-> "idle"]
    /\ candidates = [c \in Calls |-> Undefined]
    /\ candidateId = [c \in Calls |-> <<>>]
    /\ result = [c \in Calls |-> NoResult]

\* !Number.isInteger(+candidateId) || 0 >= +candidateId
IsRejectedIdAnyInteger(n) == ~n.integer
IsRejectedId(n) == ~n.integer \/ 0 >= n.val

\* Lines 83-93 of detectCategory, and line 50 of suggestCategory.
CategoryFor(cands, answer) ==
    LET n == ToNumber(answer)
    IN  IF IsRejectedId(n) THEN ResolvedUndefined
        ELSE IF ~MapHas(cands, n.val) THEN ResolvedUndefined
        ELSE ResolvedCategory(MapGet(cands, n.val).id, MapGet(cands, n.val).path)

\* suggestCategory calls detectCategory, which calls getPossibleCategories:
\* with a cache it returns the cache and the model is asked; with none it
\* issues the fetch.
Call(c) ==
    /\ pc[c] = "idle"
    /\ IF possibleCategoriesCache.defined
       THEN /\ candidates' = [candidates EXCEPT ![c] = possibleCategoriesCache]
            /\ pc' = [pc EXCEPT ![c] = "asking"]
            /\ UNCHANGED fetchCount
       ELSE /\ fetchCount < MaxFetches
            /\ fetchCount' = fetchCount + 1
            /\ pc' = [pc EXCEPT ![c] = "fetching"]
            /\ candidates' = [candidates EXCEPT ![c] = Undefined]
    /\ candidateId' = [candidateId EXCEPT ![c] = <<>>]
    /\ result' = [result EXCEPT ![c] = NoResult]
    /\ UNCHANGED <<possibleCategoriesCache, parseCount>>
    /\ UNCHANGED <<detectorVars, loaderVars, normalizerVars>>

\* The fetch fails, or its response is not ok: detectCategory rejects.
FetchFails(c) ==
    /\ pc[c] = "fetching"
    /\ pc' = [pc EXCEPT ![c] = "done"]
    /\ result' = [result EXCEPT ![c] = Rejected("Failed to fetch taxonomy")]
    /\ UNCHANGED <<possibleCategoriesCache, fetchCount, parseCount, candidates,
                   candidateId>>
    /\ UNCHANGED <<detectorVars, loaderVars, normalizerVars>>

\* The fetch gives a text: it is parsed, a new Map becomes the cache and is
\* returned to this call, and the model is asked.
FetchGives(c, text) ==
    /\ pc[c] = "fetching"
    /\ parseCount' = parseCount + 1
    /\ possibleCategoriesCache' =
           MapObject(parseCount + 1, CategoryMapOf(parseTaxonomyTextElectronics(text)))
    /\ candidates' = [candidates EXCEPT ![c] = possibleCategoriesCache']
    /\ pc' = [pc EXCEPT ![c] = "asking"]
    /\ UNCHANGED <<fetchCount, candidateId, result>>
    /\ UNCHANGED <<detectorVars, loaderVars, normalizerVars>>

\* generateText throws: the response is not ok, or has no content.
ModelFails(c) ==
    /\ pc[c] = "asking"
    /\ pc' = [pc EXCEPT ![c] = "done"]
    /\ result' = [result EXCEPT ![c] = Rejected("No response from AI")]
    /\ UNCHANGED <<possibleCategoriesCache, fetchCount, parseCount, candidates,
                   candidateId>>
    /\ UNCHANGED <<detectorVars, loaderVars, normalizerVars>>

\* The model answers with a content.
ModelAnswers(c, answer) ==
    /\ pc[c] = "asking"
    /\ candidateId' = [candidateId EXCEPT ![c] = answer]
    /\ result' = [result EXCEPT ![c] = CategoryFor(candidates[c].map, answer)]
    /\ pc' = [pc EXCEPT ![c] = "done"]
    /\ UNCHANGED <<possibleCategoriesCache, fetchCount, parseCount, candidates>>
    /\ UNCHANGED <<detectorVars, loaderVars, normalizerVars>>

\* The form is submitted again.
Again(c) ==
    /\ pc[c] = "done"
    /\ pc' = [pc EXCEPT ![c] = "idle"]
    /\ UNCHANGED <<possibleCategoriesCache, fetchCount, parseCount, candidates,
                   candidateId, result>>
    /\ UNCHANGED <<detectorVars, loaderVars, normalizerVars>>

\* ------------------------------------------------------------------------
\* Specifications
\* ------------------------------------------------------------------------

\* The detector: ingest and detect in any order.
Init == DetectorInit /\ LoaderIdle /\ FacadeIdle /\ NormalizerIdle

Next ==
    \/ \E es \in EntryLists : Ingest(es)
    \/ \E title \in Titles, opts \in OptionBags : Detect(title, opts)

Spec == Init /\ [][Next]_vars

\* The loaders on every taxonomy text.
LoaderSpecInit == DetectorInit /\ LoaderInit /\ FacadeIdle /\ NormalizerIdle

LoaderSpecNext ==
    \/ ParseText
    \/ BuildCategoryMap

LoaderSpec == LoaderSpecInit /\ [][LoaderSpecNext]_vars

\* Calls of suggestCategory, overlapping or one after the other.
FacadeSpecNext ==
    \/ \E c \in Calls : Call(c)
    \/ \E c \in Calls : FetchFails(c)
    \/ \E c \in Calls, text \in FetchTexts : FetchGives(c, text)
    \/ \E c \in Calls : ModelFails(c)
    \/ \E c \in Calls, answer \in Answers : ModelAnswers(c, answer)
    \/ \E c \in Calls : Again(c)

FacadeSpec == Init /\ [][FacadeSpecNext]_vars

\* normalize and tokenize on every text.
NormalizerSpecInit == DetectorInit /\ LoaderIdle /\ FacadeIdle /\ NormalizerInit

NormalizerSpecNext ==
    \/ Normalize
    \/ Tokenize

NormalizerSpec == NormalizerSpecInit /\ [][NormalizerSpecNext]_vars

\* ------------------------------------------------------------------------
\* Properties of detect
\* ------------------------------------------------------------------------

\* The last call was detect.
Detected == ret.op = "detect"

\* The last call was detect and it returned candidates.
DetectReturned == Detected /\ ret.outcome = "return"

MinDepthOf(opts) == OptOr(opts.minDepth, DefaultMinDepth)
TopKOf(opts) == OptOr(opts.topK, DefaultTopK)

\* Every entry is below the minimum depth of the last detect.
AllBelowMinDepth ==
    \A i \in 1..Len(entries) : entries[i].depth < MinDepthOf(ret.opts)

\* C1: detect on a detector on which ingest was never called throws the
\* "No taxonomy loaded" error and returns no result, for every title and
\* every option bag.
C1_NotReadyBeforeIngest ==
    (Detected /\ ~ingestCalled) => (ret.outcome = "NotReady" /\ ret.cands = <<>>)

C1_Witness == Detected /\ ~ingestCalled /\ ret.outcome = "NotReady"

\* No candidate of the last detect is below the minimum depth.
NoCandidateBelowMinDepth ==
    DetectReturned =>
        \A j \in 1..Len(ret.cands) : ret.cands[j].depth >= MinDepthOf(ret.opts)

\* C2, as stated: no entry with depth < minDepth is in the output of detect,
\* and after any ingest, when minDepth is above the depth of every ingested
\* entry, detect returns the empty sequence and does not fail.
C2_AsStated ==
    /\ NoCandidateBelowMinDepth
    /\ (Detected /\ ingestCalled /\ AllBelowMinDepth)
           => (ret.outcome = "return" /\ ret.cands = <<>>)

\* C2, amended: no entry with depth < minDepth is in the output of detect,
\* and when at least one entry is loaded and minDepth is above the depth of
\* every entry, detect returns the empty sequence and does not fail; with no
\* entry loaded it throws the "No taxonomy loaded" error.
C2_DepthFilter ==
    /\ NoCandidateBelowMinDepth
    /\ (Detected /\ entries # <<>> /\ AllBelowMinDepth)
           => (ret.outcome = "return" /\ ret.cands = <<>>)
    /\ (Detected /\ entries = <<>>) => ret.outcome = "NotReady"

\* A detect that left out every loaded entry for its depth, one of them with
\* its leaf in the title, and returned the empty sequence.
C2_Witness ==
    /\ DetectReturned
    /\ ret.cands = <<>>
    /\ entries # <<>>
    /\ AllBelowMinDepth
    /\ \E i \in 1..Len(entries) :
          Includes(ToLowerCase(ret.title), ToLowerCase(entries[i].leaf))

\* A detect that returned candidates and left out, for its depth, an entry
\* with its leaf in the title.
C2_FilterActs ==
    /\ DetectReturned
    /\ ret.cands # <<>>
    /\ \E i \in 1..Len(entries) :
          /\ entries[i].depth < MinDepthOf(ret.opts)
          /\ Includes(ToLowerCase(ret.title), ToLowerCase(entries[i].leaf))

\* C3: the candidates are in descending order of score, and candidates of
\* equal score in ascending order of id, whatever the order of the entries
\* given to ingest.
C3_RankedByScoreThenId ==
    DetectReturned =>
        \A j \in 1..(Len(ret.cands) - 1) :
            \/ ret.cands[j].score > ret.cands[j + 1].score
            \/ /\ ret.cands[j].score = ret.cands[j + 1].score
               /\ ret.cands[j].id < ret.cands[j + 1].id

\* The ids of the entries that pass the depth filter, in ranking order, for
\* the last detect.
RankedIds ==
    LET opts == ret.opts
        qVec == tfIdfVector(tokenize(ret.title), idf)
        rank == Ranking(ScoresOf(entries, vectors, qVec, ret.title,
                                 OptOr(opts.enableHeuristics, TRUE), MinDepthOf(opts)))
    IN  [j \in 1..Len(rank) |-> entries[rank[j]].id]

\* C4: for every topK, detect returns at most topK candidates (at most 8
\* when topK is left out), and they are the first min(topK, number of entries
\* that pass the depth filter) entries of the ranking; no candidate is the
\* most a negative topK allows.
C4_AtMostTopK ==
    DetectReturned =>
        /\ Len(ret.cands) <= Max(TopKOf(ret.opts), 0)
        /\ [j \in 1..Len(ret.cands) |-> ret.cands[j].id]
             = SubSeq(RankedIds, 1, Min(TopKOf(ret.opts), Len(RankedIds)))

\* ------------------------------------------------------------------------
\* Properties of ingest
\* ------------------------------------------------------------------------

\* C5: whenever detect can run, after an ingest that returned or one that
\* threw part-way, entries, idf and vectors belong to the same entry set.
C5_RebuildIsAtomic == idfFor = entries /\ vectorsFor = entries

\* The fields of a fresh detector after the single call ingest(es).
FreshIngest(es) ==
    LET docs == [i \in 1..Len(es) |-> categoryTokens(es[i])]
        df == DocFreqOf(EmptyMap, docs)
        newIdf == IdfOf(EmptyMap, df, Len(es))
    IN  <<es, df, newIdf, [i \in 1..Len(es) |-> tfIdfVector(docs[i], newIdf)]>>

C7_FetchedOnce ==
    /\ fetchCount <= 1
    /\ parseCount <= 1
    /\ \A c, d \in Calls :
          (candidates[c].defined /\ candidates[d].defined)
              => candidates[c].gen = candidates[d].gen

\* The model's answer of a finished call names no category of the call's Map.
NoCategoryFound(c) ==
    /\ pc[c] = "done"
    /\ candidateId[c] # <<>>
    /\ LET n == ToNumber(candidateId[c])
       IN  ~n.integer \/ n.val <= 0 \/ ~MapHas(candidates[c].map, n.val)

\* C8: when no category is found, detectCategory fails with a NoMatch error
\* that reaches its caller; it does not complete with no category.
C8_NoMatchReachesCaller ==
    \A c \in Calls :
        NoCategoryFound(c) => (result[c].kind = "NoMatch" /\ result[c].caller = "rejected")

\* C9: every category detectCategory returns has the id of a key of the
\* call's Map and the path stored for it, and the model's answer is that
\* positive integer.
C9_CategoryIsOfTheMap ==
    \A c \in Calls :
        result[c].kind = "category" =>
            LET n == ToNumber(candidateId[c])
                m == candidates[c].map
            IN  /\ n.integer /\ n.val > 0
                /\ result[c].id = n.val
                /\ MapHas(m, result[c].id)
                /\ MapGet(m, result[c].id).path = result[c].path

C9_Witness ==
    \E c \in Calls :
        /\ result[c].kind = "category"
        /\ \E i \in 1..Len(candidates[c].map) : candidates[c].map[i].key <= 0

\* The tokens of the categories the detector holds: those of its entries
\* and those its vectors were computed from.
IngestedTokens ==
    LET held == {entries[i] : i \in 1..Len(entries)}
                    \cup {vectorsFor[i] : i \in 1..Len(vectorsFor)}
    IN  UNION {Range(categoryTokens(e)) : e \in {h \in held : ~CategoryTokensThrows(h)}}

\* The last call is a detect that returned, with a title that shares no token
\* with an ingested category and with the heuristics off.
NothingSharedNoHeuristics ==
    /\ DetectReturned
    /\ Range(tokenize(ret.title)) \cap IngestedTokens = {}
    /\ ret.opts.enableHeuristics = Given(FALSE)

\* C12: when the title shares no token with any ingested category and
\* enableHeuristics is false, every returned candidate has the raw score 0
\* and the probability 1/k, k the number of returned candidates.
C12_ZeroScoresUniform ==
    NothingSharedNoHeuristics =>
        \A j \in 1..Len(ret.cands) :
            /\ ret.cands[j].score = 0
            /\ ret.cands[j].probability = Scale \div Len(ret.cands)

\* Such a detect that returned two candidates or more.
C12_Witness ==
    /\ NothingSharedNoHeuristics
    /\ Len(ret.cands) >= 2

\* C14: detect is read-only on the index: whether it returns or throws, the
\* entries, the idf table, the document frequencies and the vectors are after
\* the call what they were before it, and a detect that follows another with
\* the same title and options does what that one did.
C14_DetectReadsOnly ==
    [][ret'.op = "detect" =>
          /\ entries' = entries
          /\ idf' = idf
          /\ tokenDocFreq' = tokenDocFreq
          /\ vectors' = vectors
          /\ (ret.op = "detect" /\ ret'.title = ret.title /\ ret'.opts = ret.opts)
                => ret' = ret]_vars

\* A detect on a built index that scored an entry above 0.
C14_Witness ==
    /\ DetectReturned
    /\ vectors # <<>>
    /\ \E j \in 1..Len(ret.cands) : ret.cands[j].score > 0

\* A detect on an index left by an aborted ingest that threw in cosineSim.
C14_ThrowWitness ==
    /\ Detected
    /\ ret.outcome = "TypeError"

\* C15: readiness follows the list of the most recent ingest: after an
\* ingest of the empty list, a non-empty one before it or not, detect throws
\* the "No taxonomy loaded" error of a detector never ingested into; after an
\* ingest of a non-empty list detect does not throw it.
C15_ReadinessFollowsLastIngest ==
    (Detected /\ ingestCalled) =>
        (ret.outcome = "NotReady" <=> lastIngested = <<>>)

\* A detect that threw the error after a non-empty list and then the empty
\* list were ingested.
C15_Witness ==
    /\ Detected
    /\ ret.outcome = "NotReady"
    /\ nonEmptyIngested
    /\ lastIngested = <<>>

\* A detect that did not throw the error, after a non-empty list was ingested.
C15_ReadyWitness ==
    /\ Detected
    /\ ret.outcome # "NotReady"
    /\ lastIngested # <<>>

\* ------------------------------------------------------------------------
\* Properties of the loaders
\* ------------------------------------------------------------------------

\* The lines of the text that are not skipped, as trimmed.
WellFormedLines ==
    LET IsKept(l) == ~IsSkipped(l)
        kept == SelectSeq(SplitLines(rawText, <<>>), IsKept)
    IN  [k \in 1..Len(kept) |-> Trim(kept[k])]

\* C10: in the entries the loader returns, the ids are unique, and of the
\* well-formed lines with one id it is the last whose entry is there.
C10_UniqueIds ==
    parsed.done =>
        /\ \A i, j \in 1..Len(parsed.value) :
              i # j => parsed.value[i].id # parsed.value[j].id
        /\ \A k \in 1..Len(WellFormedLines) :
              LET e == EntryOf(MatchLine(WellFormedLines[k]))
                  last == \A n \in (k + 1)..Len(WellFormedLines) :
                              EntryOf(MatchLine(WellFormedLines[n])).id # e.id
              IN  last => \E i \in 1..Len(parsed.value) : parsed.value[i] = e

\* A trimmed line matches ^\d+\s*-\s*.+$ when it can be cut into digits,
\* white space, the hyphen, white space and a breadcrumb of one character or
\* more, none a line terminator.
MatchesLinePattern(t) ==
    \E a \in 1..Len(t) : \E b \in a..Len(t) : \E c \in (b + 1)..Len(t) :
        /\ \A i \in 1..a : IsDigit(t[i])
        /\ \A i \in (a + 1)..b : IsSpace(t[i])
        /\ t[b + 1] = "-"
        /\ \A i \in (b + 2)..c : IsSpace(t[i])
        /\ c < Len(t)
        /\ \A i \in (c + 1)..Len(t) : t[i] \notin LineTerminators

\* The lines an entry is due for, as trimmed and in the order of the text.
EntryLines ==
    LET IsDue(l) ==
            LET t == Trim(l)
            IN  t # <<>> /\ Head(t) # "#" /\ MatchesLinePattern(t)
        due == SelectSeq(SplitLines(rawText, <<>>), IsDue)
    IN  [k \in 1..Len(due) |-> Trim(due[k])]

\* Whether s ends with suffix.
EndsWith(s, suffix) ==
    /\ Len(suffix) <= Len(s)
    /\ SubSeq(s, Len(s) - Len(suffix) + 1, Len(s)) = suffix

\* The entries are those of the lines an entry is due for, one for each and
\* in their order, with depth and leaf those of the breadcrumb's segments.
OneEntryPerLine(es) ==
    /\ Len(es) = Len(EntryLines)
    /\ \A k \in 1..Len(es) :
          LET segments == Segments(es[k].path)
          IN  /\ EndsWith(EntryLines[k], es[k].path)
              /\ es[k].id = DigitsToNumber(DigitPrefix(EntryLines[k]), 0)
              /\ es[k].depth = Len(segments)
              /\ es[k].depth >= 1
              /\ es[k].leaf = Trim(segments[Len(segments)])

\* C11: parseTaxonomyText, of the detector and of detectCategory.ts, returns
\* in input order exactly one entry for each line that after trimming is not
\* empty, does not start with '#' and matches ^\d+\s*-\s*.+$, and skips every
\* other line; an entry's depth is the number of ' > '-separated segments of
\* its breadcrumb, at least 1, and its leaf is the trimmed last segment.
C11_OneEntryPerLine ==
    /\ parsed.done => OneEntryPerLine(parsed.value)
    /\ categoryEntries.done => OneEntryPerLine(categoryEntries.value)

\* The part of C11 that is about parseTaxonomyText of the detector.
DetectorLoaderOneEntryPerLine ==
    parsed.done => OneEntryPerLine(parsed.value)

\* The detector's loader has returned entries and skipped a line of the text.
DetectorLoaderSkipsAndKeeps ==
    /\ parsed.done
    /\ parsed.value # <<>>
    /\ Len(parsed.value) < Len(SplitLines(rawText, <<>>))

\* ------------------------------------------------------------------------
\* Properties of normalize and tokenize
\* ------------------------------------------------------------------------

\* C13: normalize(normalize(x)) = normalize(x) for every text x, and the
\* tokens of x joined by single spaces tokenize to the tokens of x.
C13_NormalizeIdempotent ==
    /\ \A i \in 1..Len(normalized) : normalized[i] = normalized[1]
    /\ \A i \in 1..Len(tokenized) : tokenized[i] = tokenized[1]

\* normalize changed the text and was applied to its result; tokenize
\* returned two tokens or more and was applied to them.
C13_Witness ==
    /\ Len(normalized) >= 2
    /\ normalized[1] # inputText
    /\ normalized[1] # <<>>
    /\ Len(tokenized) >= 2
    /\ Len(tokenized[1]) >= 2

====
